---- MODULE Spec2Model ----
(***************************************************************************)
(* The drawing page of llong2195/draw: the Home page state (tool, colour,  *)
(* line width, sketchy toggle, viewport), the Canvas component state       *)
(* (session flag, anchor, text region) and the two canvas elements: the    *)
(* persistent canvas and the preview canvas.                               *)
(*                                                                         *)
(* A canvas bitmap is modelled by its display list: the sequence of draw   *)
(* calls that painted it, oldest first.  A blank canvas is the empty list, *)
(* clearRect over the whole canvas empties the list, drawImage of the      *)
(* preview canvas appends the preview's list.                              *)
(***************************************************************************)
EXTENDS Integers, Sequences, FiniteSets, TLC

VARIABLES
  ctx,               \* Canvas: ctx and previewCtx state (FALSE = null)
  drawMode,          \* Home: drawMode state
  color,             \* Home: color state
  lineWidth,         \* Home: lineWidth state
  enableRough,       \* Home: enableRough state
  isMobileView,      \* Home: isMobileView state
  innerWidth,        \* window.innerWidth
  width,             \* width attribute of both canvas elements (last render)
  isDrawing,         \* Canvas: isDrawing state
  startPos,          \* Canvas: startPos state
  textInputValue,    \* Canvas: textInputValue state
  textInputPosition, \* Canvas: textInputPosition state
  focused,           \* the textarea overlay has the keyboard focus
  persist,           \* display list of the persistent canvas
  preview,           \* display list of the preview canvas
  path,              \* current path of the persistent canvas context
  ctxStyle,          \* strokeStyle and lineWidth of the persistent context
  pctxStyle,         \* strokeStyle and lineWidth of the preview context
  ev,                \* history: the event handled last
  gest,              \* history: the pointer gesture started last
  steps,             \* history: number of events handled
  listener,          \* window 'paste' listener: registered, and the ctx,
                     \* width and height its handlePaste closure captured
  decoding,          \* images handed to FileReader / Image, not yet loaded
  toast,             \* the toast shown last
  timeouts,          \* host timer table: owner and state of every setTimeout
  tooltipTimer,      \* Canvas mount effect: id of its tooltipTimer (0: none)
  showTooltip,       \* Canvas: showTooltip state
  resizeTimer,       \* useIsMobile effect: its resizeTimer (0: undefined)
  isMobile,          \* useIsMobile: isMobile state
  life               \* which of Canvas and useIsMobile is mounted or torn down

vars == <<ctx, drawMode, color, lineWidth, enableRough, isMobileView,
          innerWidth, width, isDrawing, startPos, textInputValue,
          textInputPosition, focused, persist, preview, path, ctxStyle,
          pctxStyle, ev, gest, steps, listener, decoding, toast, timeouts,
          tooltipTimer, showTooltip, resizeTimer, isMobile, life>>

homeVars == <<drawMode, color, lineWidth, enableRough, isMobileView,
              innerWidth, width>>
sessionVars == <<isDrawing, startPos>>
textVars == <<textInputValue, textInputPosition, focused>>
canvasVars == <<persist, preview, path, ctxStyle, pctxStyle>>
pasteVars == <<listener, decoding, toast>>
timerVars == <<timeouts, tooltipTimer, showTooltip, resizeTimer, isMobile, life>>

----------------------------------------------------------------------------
(* Bounds of the model *)

MaxSteps == 5
MaxCoord == 0

(* Inputs *)

Coords == 0..MaxCoord
Points == {[x |-> i, y |-> 0] : i \in Coords} \cup {[x |-> 0, y |-> 1]}
NoPos == [x |-> -1, y |-> -1]

Tools == {"pen", "rectangle", "circle", "line", "arrow", "text", "move"}
ShapeTools == {"rectangle", "circle", "line", "arrow"}
ToolbarTools == {"pen", "line", "rectangle", "circle", "arrow", "text"}
Colors == {"#000000", "#e03131"}
LineWidths == {1, 5}
WindowWidths == {600, 1000, 1100}
Texts == {<< >>, <<" ">>, <<"H", "i">>, <<" ", "H", "i">>}
StopEvents == {"mouseup", "mouseleave", "touchend"}

\* window.innerHeight, and the windows the blit computation is tried on:
\* those of Spec and the narrowest and the lowest window whose canvas is
\* larger than 20 x 20
InnerHeight == 800
WindowHeights == {169, 800, 1200}
OnloadWidths == WindowWidths \cup {53}

\* pointer positions and line widths the shape geometry is tried on
GridCoords == {0, 10, 50, 100}
GridPoints == {[x |-> a, y |-> b] : a \in GridCoords, b \in GridCoords}
GeomWidths == {1, 2, 3, 4, 5, 8}

\* natural sizes of the images a clipboard may carry
ImageWidths == {100, 560, 700, 1000, 1600}
ImageHeights == {100, 490, 700, 2400}
Images == {[w |-> a, h |-> b] : a \in ImageWidths, b \in ImageHeights}
NoImage == [w |-> 0, h |-> 0]
\* clipboard items: the MIME type and what getAsFile() yields (NoImage: null)
TextItem == [type |-> "text", file |-> NoImage]
ImageItem(img) == [type |-> "image", file |-> img]
ClipItems ==
  {TextItem, ImageItem(NoImage), ImageItem([w |-> 700, h |-> 100]),
   ImageItem([w |-> 700, h |-> 2400])}
Clipboards ==
  {<<TextItem>>}
    \cup {<<ImageItem([w |-> 700, h |-> b])>> : b \in {100, 2400}}
ItemSeqs ==
  {<< >>} \cup {<<a>> : a \in ClipItems}
    \cup {<<a, b>> : a \in ClipItems, b \in ClipItems}

NoListener == [on |-> FALSE, ctx |-> FALSE, width |-> 0, height |-> 0]

Blank == << >>
DefaultStyle == [color |-> "#000000", width |-> 1]
NoGesture == [tool |-> "none", pts |-> << >>, base |-> 0, kept |-> FALSE]

Max(a, b) == IF a > b THEN a ELSE b
Min(a, b) == IF a < b THEN a ELSE b
Last(s) == s[Len(s)]

----------------------------------------------------------------------------
(* Pure helpers *)

\* Home render: the width prop handed to Canvas
CanvasWidth(mobile, w) == IF mobile THEN w - 32 ELSE Min(w - 320, 1600)

\* Home render: the height prop handed to Canvas
CanvasHeight(mobile, h) == IF mobile THEN 500 ELSE Min(h - 148, 900)

\* checkMobile: window.innerWidth < 768
CheckMobile(w) == w < 768

\* String.prototype.trim on a sequence of characters
RECURSIVE TrimLeft(_)
TrimLeft(s) == IF s # << >> /\ Head(s) = " " THEN TrimLeft(Tail(s)) ELSE s

RECURSIVE TrimRight(_)
TrimRight(s) ==
  IF s # << >> /\ Last(s) = " " THEN TrimRight(SubSeq(s, 1, Len(s) - 1)) ELSE s

Trim(s) == TrimRight(TrimLeft(s))

\* What one render pass of draw() paints on the preview canvas
RoughParts(tool) == IF tool = "arrow" THEN {"head"} ELSE {"outline"}

PreciseParts(tool) == IF tool = "arrow" THEN {"shaft", "head"} ELSE {"outline"}

\* a rectangle call that takes the pointer for the width and the height
RectArgsAbsolute(a, p) == [x |-> a.x, y |-> a.y, w |-> p.x, h |-> p.y]

\* the arguments of previewCtx.rect and roughGenerator.rectangle
RectArgs(a, p) == [x |-> a.x, y |-> a.y, w |-> p.x - a.x, h |-> p.y - a.y]

\* the corners of the outline drawn for x, y and a signed width and height
RectCorners(r) ==
  {[x |-> r.x, y |-> r.y], [x |-> r.x + r.w, y |-> r.y],
   [x |-> r.x + r.w, y |-> r.y + r.h], [x |-> r.x, y |-> r.y + r.h]}

\* a head length that is not capped
HeadLengthUncapped(w) == w * 5

\* headLength = Math.min(lineWidth * 5, 20)
HeadLength(w) == Min(w * 5, 20)

\* the geometry a render pass hands to the context or to roughjs
ShapeGeom(tool, a, p) ==
  CASE tool = "rectangle" -> [corners |-> RectCorners(RectArgs(a, p))]
    [] tool = "circle" ->
         [centre |-> a,
          radiusSq |-> (p.x - a.x) * (p.x - a.x) + (p.y - a.y) * (p.y - a.y)]
    [] tool = "line" -> [ends |-> <<a, p>>]
    [] tool = "arrow" -> [tip |-> p, head |-> HeadLength(lineWidth)]

ShapeInstance(tool, a, p) ==
  IF enableRough
  THEN [kind |-> "shape", tool |-> tool, from |-> a, to |-> p,
        color |-> color, width |-> lineWidth, rough |-> TRUE,
        parts |-> RoughParts(tool), geom |-> ShapeGeom(tool, a, p)]
  ELSE [kind |-> "shape", tool |-> tool, from |-> a, to |-> p,
        color |-> pctxStyle.color, width |-> pctxStyle.width, rough |-> FALSE,
        parts |-> PreciseParts(tool), geom |-> ShapeGeom(tool, a, p)]

\* a render pass that does not clear the preview canvas first
RenderPreviewNoClear(tool, a, p) ==
  preview \o (IF tool \in ShapeTools THEN <<ShapeInstance(tool, a, p)>>
              ELSE Blank)

RenderPreview(tool, a, p) ==
  IF tool \in ShapeTools THEN <<ShapeInstance(tool, a, p)>> ELSE Blank

\* ctx.stroke() of the current path with the context's current style
StrokeEntry(pts) ==
  [kind |-> "stroke", pts |-> pts, color |-> ctxStyle.color,
   width |-> ctxStyle.width]

\* a pen move that only extends the path and leaves stroking to later
StrokeDeferred(layer, pts) == layer

Stroke(layer, pts) ==
  IF Len(pts) >= 2 THEN Append(layer, StrokeEntry(pts)) ELSE layer

\* ctx.closePath(): the subpath is closed back to its first point
ClosePath(pts) == IF Len(pts) >= 2 THEN Append(pts, pts[1]) ELSE pts

\* ctx.fillText of applyTextToCanvas
TextEntry ==
  [kind |-> "text", str |-> textInputValue, at |-> textInputPosition,
   color |-> color, size |-> Max(lineWidth * 3, 14)]

\* an early return that tests the content without trimming it
TextAppliesUntrimmed ==
  ctx /\ textInputPosition # NoPos /\ textInputValue # << >>

\* applyTextToCanvas gets past its early return
TextApplies ==
  ctx /\ textInputPosition # NoPos /\ Trim(textInputValue) # << >>

----------------------------------------------------------------------------
(* img.onload of handlePaste: placement and size of the blit.  JavaScript  *)
(* numbers are modelled by exact fractions n/d in lowest terms, so a      *)
(* result stands for the double nearest to it.                            *)

RECURSIVE GCD(_, _)
GCD(a, b) == IF b = 0 THEN a ELSE GCD(b, a % b)

Rat(n, d) == LET g == GCD(n, d) IN [n |-> n \div g, d |-> d \div g]
Whole(k) == [n |-> k, d |-> 1]
RMul(a, b) == Rat(a.n * b.n, a.d * b.d)
RDiv(a, b) == Rat(a.n * b.d, a.d * b.n)
RGt(a, b) == a.n * b.d > b.n * a.d

\* a placement that is not clamped at 0
CenteredUnclamped(size, imgSize) == [n |-> size - imgSize, d |-> 2]

\* Math.max(0, (size - imgSize) / 2)
Centered(size, imgSize) ==
  IF size > imgSize THEN Rat(size - imgSize, 2) ELSE Whole(0)

\* a blit that clamps each side on its own
PasteBlitClampsSides(img, cw, ch) ==
  [x |-> Centered(cw, img.w), y |-> Centered(ch, img.h),
   w |-> Whole(Min(img.w, cw - 20)), h |-> Whole(Min(img.h, ch - 20))]

\* the arguments of ctx.drawImage(img, x, y, drawWidth, drawHeight)
PasteBlit(img, cw, ch) ==
  LET w0 == Whole(img.w)
      h0 == Whole(img.h)
      fitW == RGt(w0, Whole(cw - 20))
      s1 == RDiv(Whole(cw - 20), w0)
      w1 == IF fitW THEN RMul(w0, s1) ELSE w0
      h1 == IF fitW THEN RMul(h0, s1) ELSE h0
      fitH == RGt(h1, Whole(ch - 20))
      s2 == RDiv(Whole(ch - 20), h1)
      w2 == IF fitH THEN RMul(w1, s2) ELSE w1
      h2 == IF fitH THEN RMul(h1, s2) ELSE h1
  IN [x |-> Centered(cw, img.w), y |-> Centered(ch, img.h),
      w |-> w2, h |-> h2]

ImageEntry(img, cw, ch) ==
  [kind |-> "image", img |-> img, blit |-> PasteBlit(img, cw, ch)]

----------------------------------------------------------------------------
(* Timers of the host: setTimeout and clearTimeout *)

\* const MOBILE_BREAKPOINT = 768
MOBILE_BREAKPOINT == 768

\* setTimeout: a new pending timer of the owner; its id is its index
SetTimeout(tab, owner) == Append(tab, [owner |-> owner, state |-> "pending"])

\* a clearTimeout that cancels nothing
ClearTimeoutIgnored(tab, id) == tab

\* clearTimeout: cancels a pending timer; no effect on any other id
ClearTimeout(tab, id) ==
  IF id \in DOMAIN tab /\ tab[id].state = "pending"
  THEN [tab EXCEPT ![id].state = "cleared"]
  ELSE tab

\* no effect has run: nothing is mounted, no timer was ever set
TimersRendered ==
  /\ timeouts = << >>
  /\ tooltipTimer = 0
  /\ showTooltip = TRUE
  /\ resizeTimer = 0
  /\ isMobile = "undefined"
  /\ life = [canvas |-> "rendered", hook |-> "rendered"]

\* the Canvas mount effect has run and its tooltip timer is pending
TimersMounted ==
  /\ timeouts = SetTimeout(<< >>, "canvas")
  /\ tooltipTimer = 1
  /\ showTooltip = TRUE
  /\ resizeTimer = 0
  /\ isMobile = "undefined"
  /\ life = [canvas |-> "mounted", hook |-> "rendered"]

----------------------------------------------------------------------------
(* History bookkeeping *)

ClearOps == {"clickClear", "keyClear"}
ConfirmOps == {"enter", "blur"}

\* ev remembers the kind of the event, its outcome flag, and what the event
\* found: the length of the persistent display list (had) and of the text
\* content (txt), for the kinds of event whose properties speak of them
Tick(op, ok) ==
  /\ steps < MaxSteps
  /\ steps' = steps + 1
  /\ ev' = [op |-> op, ok |-> ok,
            had |-> IF op \in ClearOps \cup ConfirmOps \cup {"down"}
                    THEN Len(persist) ELSE 0,
            txt |-> IF op = "escape" THEN Len(textInputValue) ELSE 0]

\* an event outside the gesture: the gesture stays undisturbed only if the
\* tool, the canvas size and the persistent canvas are what they were
Disturb ==
  gest' = IF isDrawing
          THEN [gest EXCEPT !.kept = @ /\ drawMode' = drawMode
                                      /\ width' = width /\ persist' = persist]
          ELSE gest

----------------------------------------------------------------------------
(* Initial state: the page is rendered, the Canvas mount effect has not   *)
(* run yet (both contexts are null)                                      *)

Init ==
  /\ ctx = FALSE
  /\ drawMode = "pen"
  /\ color = "#000000"
  /\ lineWidth = 5
  /\ enableRough = TRUE
  /\ innerWidth = 1000        \* a desktop viewport; WindowResize reaches the others
  /\ isMobileView = CheckMobile(innerWidth)
  /\ width = CanvasWidth(isMobileView, innerWidth)
  /\ isDrawing = FALSE
  /\ startPos = NoPos
  /\ textInputValue = << >>
  /\ textInputPosition = NoPos
  /\ focused = FALSE
  /\ persist = Blank
  /\ preview = Blank
  /\ path = << >>
  /\ ctxStyle = DefaultStyle
  /\ pctxStyle = DefaultStyle
  /\ ev = [op |-> "init", ok |-> TRUE, had |-> 0, txt |-> 0]
  /\ gest = NoGesture
  /\ steps = 0
  /\ listener = NoListener
  /\ decoding = << >>
  /\ toast = "none"
  /\ TimersRendered

----------------------------------------------------------------------------
(* Canvas mount effect *)

Mount ==
  /\ ~ctx
  /\ ctx' = TRUE
  /\ ctxStyle' = [color |-> color, width |-> lineWidth]
  /\ pctxStyle' = [color |-> color, width |-> lineWidth]
  /\ ev' = [op |-> "mount", ok |-> TRUE, had |-> 0, txt |-> 0]
  /\ listener' = [on |-> TRUE, ctx |-> ctx, width |-> width,
                   height |-> CanvasHeight(isMobileView, InnerHeight)]
  /\ timeouts' = SetTimeout(timeouts, "canvas")
  /\ tooltipTimer' = Len(timeouts')
  /\ life' = [life EXCEPT !.canvas = "mounted"]
  /\ UNCHANGED <<homeVars, sessionVars, textVars, persist, preview, path,
                 gest, steps, decoding, toast, showTooltip, resizeTimer,
                 isMobile>>

----------------------------------------------------------------------------
(* Home re-render after one of its state setters ran.  The width prop is   *)
(* recomputed from window.innerWidth; a changed width attribute resets     *)
(* both canvas elements (bitmap, path and context state), and the style    *)
(* effect of Canvas runs when color or lineWidth changed.                  *)

Render ==
  LET changed == <<drawMode', color', lineWidth', enableRough', isMobileView'>>
                   # <<drawMode, color, lineWidth, enableRough, isMobileView>>
      w == IF changed THEN CanvasWidth(isMobileView', innerWidth') ELSE width
      reset == w # width
      styleEffect == ctx /\ (color' # color \/ lineWidth' # lineWidth)
      applied == [color |-> color', width |-> lineWidth']
  IN /\ width' = w
     /\ persist' = IF reset THEN Blank ELSE persist
     /\ preview' = IF reset THEN Blank ELSE preview
     /\ path' = IF reset THEN << >> ELSE path
     /\ ctxStyle' = IF styleEffect THEN applied
                    ELSE IF reset THEN DefaultStyle ELSE ctxStyle
     /\ pctxStyle' = IF styleEffect THEN applied
                     ELSE IF reset THEN DefaultStyle ELSE pctxStyle

\* the textarea is rendered, and focused on mount (autoFocus)
TextareaShown(mode, pos) == mode = "text" /\ pos # NoPos

SetDrawMode(m) ==
  /\ drawMode' = m
  /\ UNCHANGED <<color, lineWidth, enableRough, isMobileView, innerWidth>>
  /\ Render
  /\ focused' = (TextareaShown(m, textInputPosition)
                 /\ ~TextareaShown(drawMode, textInputPosition))
  /\ UNCHANGED <<ctx, sessionVars, textInputValue, textInputPosition>>
  /\ Disturb

\* Toolbar: tool buttons
ClickTool(m) ==
  /\ ~focused
  /\ Tick("config", TRUE)
  /\ SetDrawMode(m)
  /\ UNCHANGED <<pasteVars, timerVars>>

\* Toolbar: colour swatches and colour input
ClickColor(c) ==
  /\ ~focused
  /\ Tick("config", TRUE)
  /\ color' = c
  /\ UNCHANGED <<drawMode, lineWidth, enableRough, isMobileView, innerWidth>>
  /\ Render
  /\ UNCHANGED <<ctx, sessionVars, textVars>>
  /\ Disturb
  /\ UNCHANGED <<pasteVars, timerVars>>

\* Toolbar: line width buttons and slider
ClickLineWidth(n) ==
  /\ ~focused
  /\ Tick("config", TRUE)
  /\ lineWidth' = n
  /\ UNCHANGED <<drawMode, color, enableRough, isMobileView, innerWidth>>
  /\ Render
  /\ UNCHANGED <<ctx, sessionVars, textVars>>
  /\ Disturb
  /\ UNCHANGED <<pasteVars, timerVars>>

SetEnableRough(b) ==
  /\ enableRough' = b
  /\ UNCHANGED <<drawMode, color, lineWidth, isMobileView, innerWidth>>
  /\ Render
  /\ UNCHANGED <<ctx, sessionVars, textVars>>
  /\ Disturb

\* Toolbar: sketchy switch
ClickRough(b) ==
  /\ ~focused
  /\ Tick("config", TRUE)
  /\ SetEnableRough(b)
  /\ UNCHANGED <<pasteVars, timerVars>>

\* window resize listener of Home (checkMobile)
WindowResize(w) ==
  /\ w # innerWidth
  /\ Tick("config", TRUE)
  /\ innerWidth' = w
  /\ isMobileView' = CheckMobile(w)
  /\ UNCHANGED <<drawMode, color, lineWidth, enableRough>>
  /\ Render
  /\ UNCHANGED <<ctx, sessionVars, textVars>>
  /\ Disturb
  /\ UNCHANGED <<pasteVars, timerVars>>

----------------------------------------------------------------------------
(* Canvas: pointer handlers of the preview canvas element *)

\* an applyTextToCanvas that paints and does not reset the text input
ApplyTextKeepsInput ==
  /\ persist' = IF TextApplies THEN Append(persist, TextEntry) ELSE persist
  /\ UNCHANGED <<textInputValue, textInputPosition>>

\* applyTextToCanvas: paints the text and closes the region, or returns early
ApplyTextToCanvas ==
  IF TextApplies
  THEN /\ persist' = Append(persist, TextEntry)
       /\ textInputValue' = << >>
       /\ textInputPosition' = NoPos
  ELSE UNCHANGED <<persist, textInputValue, textInputPosition>>

\* a text branch that moves the region before it paints the pending text
StartTextOpensFirst(p) ==
  /\ persist' = IF TextApplies
                THEN Append(persist, [TextEntry EXCEPT !.at = p])
                ELSE persist
  /\ textInputValue' = IF TextApplies THEN << >> ELSE textInputValue
  /\ textInputPosition' = p
  /\ focused' = TRUE

\* startDrawing, text branch: applyTextToCanvas when a region is open, then
\* setTextInputPosition; the textarea is focused by autoFocus or the effect
StartText(p) ==
  /\ persist' = IF TextApplies THEN Append(persist, TextEntry) ELSE persist
  /\ textInputValue' = IF TextApplies THEN << >> ELSE textInputValue
  /\ textInputPosition' = p
  /\ focused' = TRUE

\* a pointer-down that does not test the contexts
NoSurfaceUnchecked == FALSE

\* startDrawing: if (!ctx || !previewCtx) return
NoSurface == ~ctx

\* a guard of draw and stopDrawing that does not test the session
NoSessionUnchecked == ~ctx

\* draw, stopDrawing: if (!isDrawing || !ctx || !previewCtx || !startPos) return
NoSession == ~isDrawing \/ ~ctx \/ startPos = NoPos

\* a pen branch that goes on with the path of the session in progress
BeginPathKeepsSession(p) == IF isDrawing THEN Append(path, p) ELSE <<p>>

\* ctx.beginPath(); ctx.moveTo(x, y): the current path is the point alone
BeginPath(p) == <<p>>

\* a pointer-down whose text branch records the anchor as well
StartDrawingTextAnchors(p) ==
  /\ Tick("down", TRUE)
  /\ IF NoSurface
     THEN UNCHANGED <<sessionVars, textVars, canvasVars, gest>>
     ELSE /\ startPos' = p
          /\ IF drawMode = "text"
             THEN /\ StartText(p)
                  /\ UNCHANGED <<isDrawing, preview, path, ctxStyle, pctxStyle>>
                  /\ Disturb
             ELSE /\ isDrawing' = TRUE
                  /\ IF drawMode = "pen"
                     THEN path' = <<p>> /\ UNCHANGED preview
                     ELSE preview' = Blank /\ UNCHANGED path
                  /\ gest' = [tool |-> drawMode, pts |-> <<p>>,
                              base |-> Len(persist), kept |-> TRUE]
                  /\ UNCHANGED <<textVars, persist, ctxStyle, pctxStyle>>
  /\ UNCHANGED <<ctx, homeVars>>
  /\ UNCHANGED <<pasteVars, timerVars>>

\* onMouseDown / onTouchStart
StartDrawing(p) ==
  /\ Tick("down", TRUE)
  /\ IF NoSurface
     THEN UNCHANGED <<sessionVars, textVars, canvasVars, gest>>
     ELSE IF drawMode = "text"
     THEN /\ StartText(p)
          /\ UNCHANGED <<sessionVars, preview, path, ctxStyle, pctxStyle>>
          /\ Disturb
     ELSE /\ startPos' = p
          /\ isDrawing' = TRUE
          /\ IF drawMode = "pen"
             THEN path' = BeginPath(p) /\ UNCHANGED preview
             ELSE preview' = Blank /\ UNCHANGED path
          /\ gest' = [tool |-> drawMode, pts |-> <<p>>, base |-> Len(persist),
                      kept |-> TRUE]
          /\ UNCHANGED <<textVars, persist, ctxStyle, pctxStyle>>
  /\ UNCHANGED <<ctx, homeVars>>
  /\ UNCHANGED <<pasteVars, timerVars>>

\* a move handler that renders the shape on the persistent canvas
DrawOnMain(p) ==
  /\ Tick("move", TRUE)
  /\ IF NoSession
     THEN UNCHANGED <<canvasVars, gest>>
     ELSE /\ IF drawMode = "pen"
             THEN /\ path' = Append(path, p)
                  /\ persist' = Stroke(persist, path')
                  /\ UNCHANGED preview
             ELSE /\ persist' = persist \o RenderPreview(drawMode, startPos, p)
                  /\ UNCHANGED <<preview, path>>
          /\ gest' = [gest EXCEPT !.pts = Append(@, p)]
          /\ UNCHANGED <<ctxStyle, pctxStyle>>
  /\ UNCHANGED <<ctx, homeVars, sessionVars, textVars>>
  /\ UNCHANGED <<pasteVars, timerVars>>

\* onMouseMove / onTouchMove
Draw(p) ==
  /\ Tick("move", TRUE)
  /\ IF NoSession
     THEN UNCHANGED <<canvasVars, gest>>
     ELSE /\ IF drawMode = "pen"
             THEN /\ path' = Append(path, p)
                  /\ persist' = Stroke(persist, path')
                  /\ UNCHANGED preview
             ELSE /\ preview' = RenderPreview(drawMode, startPos, p)
                  /\ UNCHANGED <<persist, path>>
          /\ gest' = [gest EXCEPT !.pts = Append(@, p)]
          /\ UNCHANGED <<ctxStyle, pctxStyle>>
  /\ UNCHANGED <<ctx, homeVars, sessionVars, textVars>>
  /\ UNCHANGED <<pasteVars, timerVars>>

\* a stop handler that throws the preview away when the pointer leaves
StopDrawingLeaveDiscards(kind) ==
  /\ Tick(kind, TRUE)
  /\ IF NoSession
     THEN UNCHANGED <<sessionVars, canvasVars>>
     ELSE /\ IF drawMode = "pen"
             THEN /\ path' = ClosePath(path)
                  /\ UNCHANGED <<persist, preview>>
             ELSE /\ persist' = IF kind = "mouseleave" THEN persist
                                ELSE persist \o preview
                  /\ preview' = Blank
                  /\ UNCHANGED path
          /\ isDrawing' = FALSE
          /\ startPos' = NoPos
          /\ UNCHANGED <<ctxStyle, pctxStyle>>
  /\ UNCHANGED <<ctx, homeVars, textVars, gest>>
  /\ UNCHANGED <<pasteVars, timerVars>>

\* onMouseUp / onMouseLeave / onTouchEnd
StopDrawing(kind) ==
  /\ Tick(kind, TRUE)
  /\ IF NoSession
     THEN UNCHANGED <<sessionVars, canvasVars>>
     ELSE /\ IF drawMode = "pen"
             THEN /\ path' = ClosePath(path)
                  /\ UNCHANGED <<persist, preview>>
             ELSE /\ persist' = persist \o preview
                  /\ preview' = Blank
                  /\ UNCHANGED path
          /\ isDrawing' = FALSE
          /\ startPos' = NoPos
          /\ UNCHANGED <<ctxStyle, pctxStyle>>
  /\ UNCHANGED <<ctx, homeVars, textVars, gest>>
  /\ UNCHANGED <<pasteVars, timerVars>>

\* touchcancel: the preview canvas element registers no handler for it
TouchCancel ==
  /\ Tick("touchcancel", TRUE)
  /\ UNCHANGED <<ctx, homeVars, sessionVars, textVars, canvasVars, gest>>
  /\ UNCHANGED <<pasteVars, timerVars>>

----------------------------------------------------------------------------
(* Canvas: the textarea overlay *)

\* the user clicks into the textarea
FocusText ==
  /\ TextareaShown(drawMode, textInputPosition)
  /\ ~focused
  /\ Tick("text", TRUE)
  /\ focused' = TRUE
  /\ UNCHANGED <<ctx, homeVars, sessionVars, textInputValue,
                 textInputPosition, canvasVars, gest>>
  /\ UNCHANGED <<pasteVars, timerVars>>

\* onChange
TextChange(v) ==
  /\ focused
  /\ v # textInputValue
  /\ Tick("text", TRUE)
  /\ textInputValue' = v
  /\ UNCHANGED <<ctx, homeVars, sessionVars, textInputPosition, focused,
                 canvasVars, gest>>
  /\ UNCHANGED <<pasteVars, timerVars>>

\* an Escape branch that confirms the region instead of discarding it
DiscardTextCommits == ApplyTextToCanvas

\* handleTextInputKeyDown, Escape branch
DiscardText ==
  /\ textInputValue' = << >>
  /\ textInputPosition' = NoPos
  /\ UNCHANGED persist

\* onKeyDown: handleTextInputKeyDown
TextKeyDown(key, shift) ==
  /\ focused
  /\ Tick(IF key = "Enter" /\ ~shift THEN "enter"
          ELSE IF key = "Escape" THEN "escape" ELSE "text", TRUE)
  /\ IF key = "Enter" /\ ~shift
     THEN /\ ApplyTextToCanvas
          /\ focused' = (textInputPosition' # NoPos)
     ELSE IF key = "Escape"
     THEN /\ DiscardText
          /\ focused' = (textInputPosition' # NoPos)
     ELSE UNCHANGED <<textVars, persist>>
  /\ UNCHANGED <<ctx, homeVars, sessionVars, preview, path, ctxStyle,
                 pctxStyle>>
  /\ Disturb
  /\ UNCHANGED <<pasteVars, timerVars>>

\* onBlur
TextBlur ==
  /\ focused
  /\ Tick("blur", TRUE)
  /\ ApplyTextToCanvas
  /\ focused' = FALSE
  /\ UNCHANGED <<ctx, homeVars, sessionVars, preview, path, ctxStyle,
                 pctxStyle>>
  /\ Disturb
  /\ UNCHANGED <<pasteVars, timerVars>>

----------------------------------------------------------------------------
(* Home: clear and the keyboard shortcuts *)

\* a clear that wipes the canvas without looking at the user's reply
HandleClearUnasked(answers) == persist' = Blank

\* a clear that erases only the newest drawing
HandleClearNewest(answers) ==
  persist' = IF (\E i \in DOMAIN answers : answers[i]) /\ persist # Blank
             THEN SubSeq(persist, 1, Len(persist) - 1) ELSE persist

\* handleClear, once per confirm dialog; answers are the user's replies
HandleClear(answers) ==
  persist' = IF \E i \in DOMAIN answers : answers[i] THEN Blank ELSE persist

\* Toolbar: clear button
ClickClear(answer) ==
  /\ ~focused
  /\ Tick("clickClear", answer)
  /\ HandleClear(<<answer>>)
  /\ UNCHANGED <<ctx, homeVars, sessionVars, textVars, preview, path,
                 ctxStyle, pctxStyle>>
  /\ Disturb
  /\ UNCHANGED <<pasteVars, timerVars>>

\* a key handler that does not look at the target of the event
TypingTargetUnchecked == FALSE

\* e.target instanceof HTMLInputElement || e.target instanceof
\* HTMLTextAreaElement: the key event goes to the focused textarea overlay
TypingTarget == focused

\* keydown "delete" / "backspace": Home.handleKeyDown asks when ctrl is held,
\* Toolbar.handleKeyDown asks for every "delete"
ClearDialogs(key, ctrlKey) ==
  (IF ctrlKey THEN 1 ELSE 0) + (IF key = "delete" THEN 1 ELSE 0)

KeyClear(key, ctrlKey, answers) ==
  /\ Len(answers) = (IF TypingTarget THEN 0 ELSE ClearDialogs(key, ctrlKey))
  /\ Tick("keyClear",
          \E i \in DOMAIN answers : answers[i])
  /\ HandleClear(answers)
  /\ UNCHANGED <<ctx, homeVars, sessionVars, textVars, preview, path,
                 ctxStyle, pctxStyle>>
  /\ Disturb
  /\ UNCHANGED <<pasteVars, timerVars>>

ToolOfKey(k) ==
  CASE k = "p" -> "pen" [] k = "r" -> "rectangle" [] k = "c" -> "circle"
    [] k = "l" -> "line" [] k = "a" -> "arrow" [] k = "t" -> "text"
    [] k = "m" -> "move"

ToolKeys == {"p", "r", "c", "l", "a", "t", "m"}

\* keydown of a tool letter: Home.handleKeyDown and Toolbar.handleKeyDown
KeyTool(k) ==
  /\ Tick("config", TRUE)
  /\ IF TypingTarget
     THEN UNCHANGED <<ctx, homeVars, sessionVars, textVars, canvasVars, gest>>
     ELSE SetDrawMode(ToolOfKey(k))
  /\ UNCHANGED <<pasteVars, timerVars>>

\* keydown "q": Home.handleKeyDown toggles the sketchy mode
KeyRough ==
  /\ Tick("config", TRUE)
  /\ IF TypingTarget
     THEN UNCHANGED <<ctx, homeVars, sessionVars, textVars, canvasVars, gest>>
     ELSE SetEnableRough(~enableRough)
  /\ UNCHANGED <<pasteVars, timerVars>>

----------------------------------------------------------------------------
(* Canvas: the window 'paste' listener registered by the mount effect *)

\* items[i].type.indexOf('image') !== -1 for some item
HasImageItem(items) == \E i \in DOMAIN items : items[i].type = "image"

\* a loop that keeps the image item it met last
PickImageLast(items, i) ==
  LET found == {j \in i..Len(items) :
                  items[j].type = "image" /\ items[j].file # NoImage}
  IN IF found = {} THEN 0 ELSE CHOOSE j \in found : \A k \in found : k <= j

\* the for loop of handlePaste from index i on: the index of the item it
\* hands to the FileReader before it breaks, 0 when it runs to the end
RECURSIVE PickImage(_, _)
PickImage(items, i) ==
  IF i > Len(items) THEN 0
  ELSE IF items[i].type = "image" /\ items[i].file # NoImage THEN i
  ELSE PickImage(items, i + 1)

\* handlePaste as registered: it reads the ctx, width and height of the
\* render whose effect called addEventListener
HandlePaste(items) ==
  IF ~listener.on \/ ~listener.ctx
  THEN UNCHANGED <<persist, decoding, toast>>
  ELSE /\ decoding' = IF PickImage(items, 1) # 0
                      THEN Append(decoding, items[PickImage(items, 1)].file)
                      ELSE decoding
       /\ toast' = IF HasImageItem(items) THEN toast ELSE "error"
       /\ UNCHANGED persist

\* a paste event on the window; ev keeps the clipboard items
Paste(items) ==
  /\ steps < MaxSteps
  /\ steps' = steps + 1
  /\ ev' = [op |-> "paste", ok |-> HasImageItem(items), had |-> Len(decoding),
            txt |-> 0, clip |-> items]
  /\ HandlePaste(items)
  /\ UNCHANGED <<ctx, homeVars, sessionVars, textVars, preview, path,
                 ctxStyle, pctxStyle, listener>>
  /\ Disturb
  /\ UNCHANGED timerVars

\* reader.onload and img.onload of the i-th pending image: the blit.
\* Only handlePaste starts a decode, and the handler the mount effect
\* registered never does, so no state of Spec enables this step; OnloadSpec
\* below applies it to every image and canvas size.
ImgOnload(i) ==
  /\ i \in DOMAIN decoding
  /\ persist' = Append(persist, ImageEntry(decoding[i], listener.width,
                                           listener.height))
  /\ decoding' = [j \in 1..(Len(decoding) - 1) |->
                    IF j < i THEN decoding[j] ELSE decoding[j + 1]]
  /\ toast' = "success"
  /\ ev' = [op |-> "onload", ok |-> TRUE, had |-> Len(persist), txt |-> 0]
  /\ UNCHANGED <<ctx, homeVars, sessionVars, textVars, preview, path,
                 ctxStyle, pctxStyle, listener, steps>>
  /\ Disturb
  /\ UNCHANGED timerVars

----------------------------------------------------------------------------

\* the tools selected in Spec: circle and line take the path of rectangle
\* through every handler; their render pass is exercised in GeomSpec
ToolChoices == ToolbarTools \ {"circle", "line"}
KeyChoices == ToolKeys \ {"c", "l"}

AnswerSeqs == {<< >>} \cup {<<a>> : a \in BOOLEAN}
                \cup {<<a, b>> : a \in BOOLEAN, b \in BOOLEAN}

Next ==
  \/ Mount
  \/ \E m \in ToolChoices : ClickTool(m)
  \/ \E c \in Colors : ClickColor(c)
  \/ \E n \in LineWidths : ClickLineWidth(n)
  \/ \E b \in BOOLEAN : ClickRough(b)
  \/ \E w \in WindowWidths : WindowResize(w)
  \/ \E p \in Points : StartDrawing(p)
  \/ \E p \in Points : Draw(p)
  \/ \E k \in StopEvents : StopDrawing(k)
  \/ TouchCancel
  \/ FocusText
  \/ \E v \in Texts : TextChange(v)
  \/ \E key \in {"Enter", "Escape"}, shift \in BOOLEAN : TextKeyDown(key, shift)
  \/ TextBlur
  \/ \E a \in BOOLEAN : ClickClear(a)
  \/ \E key \in {"delete", "backspace"}, ctrlKey \in BOOLEAN,
        answers \in AnswerSeqs : KeyClear(key, ctrlKey, answers)
  \/ \E k \in KeyChoices : KeyTool(k)
  \/ KeyRough
  \/ \E c \in Clipboards : Paste(c)

Spec == Init /\ [][Next]_vars

----------------------------------------------------------------------------
(* The blit computation as a function of the image and the canvas size:   *)
(* img.onload applied to one loaded image, for every image size and every *)
(* canvas size Home can hand to Canvas.                                    *)

OnloadInit ==
  /\ ctx = TRUE
  /\ drawMode = "pen"
  /\ color = "#000000"
  /\ lineWidth = 5
  /\ enableRough = TRUE
  /\ innerWidth \in OnloadWidths
  /\ isMobileView = CheckMobile(innerWidth)
  /\ width = CanvasWidth(isMobileView, innerWidth)
  /\ isDrawing = FALSE
  /\ startPos = NoPos
  /\ textInputValue = << >>
  /\ textInputPosition = NoPos
  /\ focused = FALSE
  /\ persist = Blank
  /\ preview = Blank
  /\ path = << >>
  /\ ctxStyle = [color |-> color, width |-> lineWidth]
  /\ pctxStyle = [color |-> color, width |-> lineWidth]
  /\ ev = [op |-> "paste", ok |-> TRUE, had |-> 0, txt |-> 0]
  /\ gest = NoGesture
  /\ steps = 0
  /\ \E b \in WindowHeights :
       listener = [on |-> TRUE, ctx |-> TRUE, width |-> width,
                   height |-> CanvasHeight(isMobileView, b)]
  /\ decoding \in {<<i>> : i \in Images}
  /\ toast = "none"
  /\ TimersMounted

OnloadNext == \E i \in DOMAIN decoding : ImgOnload(i)

OnloadSpec == OnloadInit /\ [][OnloadNext]_vars

----------------------------------------------------------------------------
(* handlePaste as a function of the clipboard items: the paste pipeline    *)
(* run by a handler that has the context at hand, for every clipboard of   *)
(* up to two items.                                                        *)

PasteInit ==
  /\ ctx = TRUE
  /\ drawMode = "pen"
  /\ color = "#000000"
  /\ lineWidth = 5
  /\ enableRough = TRUE
  /\ innerWidth = 1000
  /\ isMobileView = CheckMobile(innerWidth)
  /\ width = CanvasWidth(isMobileView, innerWidth)
  /\ isDrawing = FALSE
  /\ startPos = NoPos
  /\ textInputValue = << >>
  /\ textInputPosition = NoPos
  /\ focused = FALSE
  /\ persist = Blank
  /\ preview = Blank
  /\ path = << >>
  /\ ctxStyle = [color |-> color, width |-> lineWidth]
  /\ pctxStyle = [color |-> color, width |-> lineWidth]
  /\ ev = [op |-> "mount", ok |-> TRUE, had |-> 0, txt |-> 0]
  /\ gest = NoGesture
  /\ steps = 0
  /\ listener = [on |-> TRUE, ctx |-> TRUE, width |-> width,
                 height |-> CanvasHeight(isMobileView, InnerHeight)]
  /\ decoding = << >>
  /\ toast = "none"
  /\ TimersMounted

PasteNext ==
  \/ \E c \in ItemSeqs : Paste(c)
  \/ \E i \in DOMAIN decoding : ImgOnload(i)

PasteSpec == PasteInit /\ [][PasteNext]_vars

----------------------------------------------------------------------------
(* The render pass of draw as a function of anchor, pointer, line width    *)
(* and mode: the first pointer-move of a shape gesture, for every anchor   *)
(* and pointer of a grid and every line width.                             *)

GeomInit ==
  /\ ctx = TRUE
  /\ drawMode \in ShapeTools
  /\ color = "#000000"
  /\ lineWidth \in GeomWidths
  /\ enableRough \in BOOLEAN
  /\ innerWidth = 1000
  /\ isMobileView = CheckMobile(innerWidth)
  /\ width = CanvasWidth(isMobileView, innerWidth)
  /\ isDrawing = TRUE
  /\ startPos \in GridPoints
  /\ textInputValue = << >>
  /\ textInputPosition = NoPos
  /\ focused = FALSE
  /\ persist = Blank
  /\ preview = Blank
  /\ path = << >>
  /\ ctxStyle = [color |-> color, width |-> lineWidth]
  /\ pctxStyle = [color |-> color, width |-> lineWidth]
  /\ ev = [op |-> "down", ok |-> TRUE, had |-> 0, txt |-> 0]
  /\ gest = [tool |-> drawMode, pts |-> <<startPos>>, base |-> 0,
             kept |-> TRUE]
  /\ steps = 0
  /\ listener = [on |-> TRUE, ctx |-> FALSE, width |-> width,
                 height |-> CanvasHeight(isMobileView, InnerHeight)]
  /\ decoding = << >>
  /\ toast = "none"
  /\ TimersMounted

GeomNext == \E p \in GridPoints : Len(gest.pts) = 1 /\ Draw(p)

GeomSpec == GeomInit /\ [][GeomNext]_vars

----------------------------------------------------------------------------
(* The window keydown event as a whole: Home.handleKeyDown and             *)
(* Toolbar.handleKeyDown are both registered on the window and both run    *)
(* for one key press.  ev keeps the key, its modifiers, the number of      *)
(* handleSave calls and the number of confirm dialogs of the event.        *)

\* keydown "s": Home.handleKeyDown saves when ctrl or meta is held,
\* Toolbar.handleKeyDown when ctrl is held
SaveCalls(ctrlKey, metaKey) ==
  (IF ctrlKey \/ metaKey THEN 1 ELSE 0) + (IF ctrlKey THEN 1 ELSE 0)

ClearKeys == {"delete", "backspace"}
\* the keys pressed in ShortcutSpec; the modifiers are tried on the keys
\* whose handlers read them
ShortcutKeys == {"p", "t", "q", "s"} \cup ClearKeys
ModifierKeys == {"s"} \cup ClearKeys

KeyDown(key, ctrlKey, metaKey, answers) ==
  LET saves == IF TypingTarget \/ key # "s" THEN 0
               ELSE SaveCalls(ctrlKey, metaKey)
      asked == IF TypingTarget \/ key \notin ClearKeys THEN 0
               ELSE ClearDialogs(key, ctrlKey)
  IN /\ Len(answers) = asked
     /\ steps < MaxSteps
     /\ steps' = steps + 1
     /\ ev' = [op |-> "keydown", ok |-> \E i \in DOMAIN answers : answers[i],
               had |-> Len(persist), txt |-> 0, key |-> key,
               ctrlKey |-> ctrlKey, metaKey |-> metaKey, saves |-> saves,
               asked |-> asked]
     /\ IF ~TypingTarget /\ key \in ToolKeys
        THEN SetDrawMode(ToolOfKey(key))
        ELSE IF ~TypingTarget /\ key = "q"
        THEN SetEnableRough(~enableRough)
        ELSE /\ HandleClear(answers)
             /\ UNCHANGED <<ctx, homeVars, sessionVars, textVars, preview,
                            path, ctxStyle, pctxStyle>>
             /\ Disturb
     /\ UNCHANGED <<pasteVars, timerVars>>

ShortcutNext ==
  \/ Mount
  \/ \E p \in Points : StartDrawing(p)
  \/ \E p \in Points : Draw(p)
  \/ \E key \in ShortcutKeys, ctrlKey \in BOOLEAN, metaKey \in BOOLEAN,
        answers \in AnswerSeqs :
          /\ (ctrlKey \/ metaKey) => key \in ModifierKeys
          /\ metaKey => key = "s"
          /\ KeyDown(key, ctrlKey, metaKey, answers)

ShortcutSpec == Init /\ [][ShortcutNext]_vars

----------------------------------------------------------------------------
(* Timers and teardown: the cleanup of the Canvas mount effect, the        *)
(* useIsMobile hook with its debounced change handler, and the host firing *)
(* a pending timer.  Home renders Canvas unconditionally and does not use  *)
(* the hook, so Spec has none of these steps; they are taken here from the *)
(* rendered page, together with Home's own resize handler.                 *)

\* cleanup of the Canvas mount effect
Unmount ==
  /\ life.canvas = "mounted"
  /\ Tick("unmount", TRUE)
  /\ listener' = [listener EXCEPT !.on = FALSE]
  /\ timeouts' = ClearTimeout(timeouts, tooltipTimer)
  /\ life' = [life EXCEPT !.canvas = "torn"]
  /\ UNCHANGED <<ctx, homeVars, sessionVars, textVars, canvasVars, gest,
                 decoding, toast, tooltipTimer, showTooltip, resizeTimer,
                 isMobile>>

\* the effect of useIsMobile
HookMount ==
  /\ life.hook = "rendered"
  /\ isMobile' = IF innerWidth < MOBILE_BREAKPOINT THEN "true" ELSE "false"
  /\ life' = [life EXCEPT !.hook = "mounted"]
  /\ ev' = [op |-> "hookMount", ok |-> TRUE, had |-> 0, txt |-> 0]
  /\ UNCHANGED <<ctx, homeVars, sessionVars, textVars, canvasVars, gest,
                 steps, pasteVars, timeouts, tooltipTimer, showTooltip,
                 resizeTimer>>

\* onChange: the media query list reports a change
MqlChange ==
  /\ life.hook = "mounted"
  /\ Tick("change", TRUE)
  /\ timeouts' = SetTimeout(ClearTimeout(timeouts, resizeTimer), "hook")
  /\ resizeTimer' = Len(timeouts')
  /\ UNCHANGED <<ctx, homeVars, sessionVars, textVars, canvasVars, gest,
                 pasteVars, tooltipTimer, showTooltip, isMobile, life>>

\* cleanup of the effect of useIsMobile
HookUnmount ==
  /\ life.hook = "mounted"
  /\ Tick("unmount", TRUE)
  /\ timeouts' = ClearTimeout(timeouts, resizeTimer)
  /\ life' = [life EXCEPT !.hook = "torn"]
  /\ UNCHANGED <<ctx, homeVars, sessionVars, textVars, canvasVars, gest,
                 pasteVars, tooltipTimer, showTooltip, resizeTimer, isMobile>>

\* the host fires the pending timer i and runs its callback: the tooltip
\* timer hides the tooltip, a resize timer reads window.innerWidth; ev keeps
\* the id of the timer
Timeout(i) ==
  /\ i \in DOMAIN timeouts
  /\ timeouts[i].state = "pending"
  /\ steps < MaxSteps
  /\ steps' = steps + 1
  /\ ev' = [op |-> "timeout", ok |-> TRUE, had |-> i, txt |-> 0]
  /\ timeouts' = [timeouts EXCEPT ![i].state = "fired"]
  /\ IF timeouts[i].owner = "canvas"
     THEN showTooltip' = FALSE /\ UNCHANGED isMobile
     ELSE /\ isMobile' = IF innerWidth < MOBILE_BREAKPOINT THEN "true"
                         ELSE "false"
          /\ UNCHANGED showTooltip
  /\ UNCHANGED <<ctx, homeVars, sessionVars, textVars, canvasVars, gest,
                 pasteVars, tooltipTimer, resizeTimer, life>>

TimerNext ==
  \/ Mount
  \/ Unmount
  \/ HookMount
  \/ MqlChange
  \/ HookUnmount
  \/ \E i \in DOMAIN timeouts : Timeout(i)
  \/ \E w \in WindowWidths : WindowResize(w)

TimerSpec == Init /\ [][TimerNext]_vars

----------------------------------------------------------------------------
(* Vocabulary of the properties *)

\* the step handles one event of the given kinds
IsStep(ops) == steps' = steps + 1 /\ ev'.op \in ops

IsPrefix(s, t) == Len(s) <= Len(t) /\ SubSeq(t, 1, Len(s)) = s

HasSegment(pts, a, b) ==
  \E i \in 1..(Len(pts) - 1) : pts[i] = a /\ pts[i + 1] = b

\* a stroke on the layer runs along the segment from a to b
SegmentOn(layer, a, b) ==
  \E i \in DOMAIN layer :
    layer[i].kind = "stroke" /\ HasSegment(layer[i].pts, a, b)

\* colour and width the segment a-b shows on the layer: those of the newest
\* stroke running along it, << >> when no stroke does
StyleOn(layer, a, b) ==
  LET over == {i \in DOMAIN layer :
                 /\ layer[i].kind = "stroke"
                 /\ (HasSegment(layer[i].pts, a, b)
                     \/ HasSegment(layer[i].pts, b, a))}
  IN IF over = {} THEN << >>
     ELSE LET top == CHOOSE i \in over : \A j \in over : j <= i
          IN <<layer[top].color, layer[top].width>>

IsShapeOf(e, tool, a, p) ==
  e.kind = "shape" /\ e.tool = tool /\ e.from = a /\ e.to = p

HasImage(layer) == \E i \in DOMAIN layer : layer[i].kind = "image"

RAdd(a, b) == Rat(a.n * b.d + b.n * a.d, a.d * b.d)

\* the image height scaled by (canvas width - 20) / image width
WidthFitHeight(img, cw) == RMul(Whole(img.h), RDiv(Whole(cw - 20), Whole(img.w)))

\* the blit is the image scaled to the width of the canvas less 20
ScaledToWidth(e, cw) ==
  /\ e.blit.w = Whole(cw - 20)
  /\ e.blit.h = WidthFitHeight(e.img, cw)

----------------------------------------------------------------------------
(* C1: a gesture with a shape tool that stays the active tool - pointer-   *)
(* down at A, one or more pointer-moves ending at P, pointer-up - leaves   *)
(* the persistent canvas with exactly one new shape, the one for A->P, and *)
(* the preview canvas blank.                                               *)
CommitAtomicity ==
  [][(/\ isDrawing /\ ~isDrawing'
      /\ gest.kept /\ Len(gest.pts) >= 2
      /\ drawMode \in ShapeTools)
     => /\ IsPrefix(persist, persist')
        /\ Len(persist') = gest.base + 1
        /\ IsShapeOf(Last(persist'), drawMode, gest.pts[1], Last(gest.pts))
        /\ preview' = Blank]_vars

\* a rectangle gesture through two different points has ended
CommitAtomicityWitness ==
  /\ ev.op \in StopEvents /\ ~isDrawing
  /\ gest.kept /\ gest.tool = "rectangle"
  /\ Len(gest.pts) >= 3 /\ gest.pts[2] # gest.pts[3]
  /\ Len(persist) = gest.base + 1
  /\ IsShapeOf(Last(persist), "rectangle", gest.pts[1], Last(gest.pts))
  /\ preview = Blank

(* C2: while a session is active and the active tool is a shape tool, a    *)
(* pointer-move leaves the persistent canvas as it was: the render pass    *)
(* writes to the preview canvas only.                                      *)
ShapeMoveKeepsPersistent ==
  [][(IsStep({"move"}) /\ isDrawing /\ drawMode \in ShapeTools)
     => persist' = persist]_vars

\* a second move of a shape gesture over a canvas that already holds a stroke
ShapeMoveWitness ==
  /\ ev.op = "move" /\ isDrawing
  /\ gest.tool \in ShapeTools /\ gest.kept /\ Len(gest.pts) >= 2
  /\ preview # Blank /\ persist # Blank

(* C3: whenever no session is active the preview canvas is blank.          *)
PreviewBlankWhenIdle == ~isDrawing => preview = Blank

(* C4: a drawing session and an open text region never exist together.    *)
SessionExcludesTextEdit == ~(isDrawing /\ textInputPosition # NoPos)

(* C5: in the Drawing state every pointer-up, pointer-leave and pointer-   *)
(* cancel, mouse or touch, ends the session and discards the anchor; with  *)
(* a shape tool the preview is committed and cleared.                      *)
EndEventsReturnToIdle ==
  [][(IsStep(StopEvents \cup {"touchcancel"}) /\ isDrawing)
     => /\ ~isDrawing'
        /\ startPos' = NoPos
        /\ drawMode \in ShapeTools
             => persist' = persist \o preview /\ preview' = Blank]_vars

(* C6: during a pen gesture the persistent canvas holds the segment of     *)
(* every pointer-move handled so far; nothing waits for pointer-up.        *)
PenStrokesImmediately ==
  (isDrawing /\ gest.tool = "pen" /\ gest.kept)
    => \A i \in 1..(Len(gest.pts) - 1) :
         SegmentOn(persist, gest.pts[i], gest.pts[i + 1])

\* two moves of a pen gesture have been handled, no pointer-up yet
PenStrokesWitness ==
  /\ ev.op = "move" /\ isDrawing
  /\ gest.tool = "pen" /\ gest.kept
  /\ Len(gest.pts) >= 3 /\ gest.pts[2] # gest.pts[3]

(* C7: content already on the persistent canvas keeps the colour and width *)
(* it was drawn with: no step changes the style a segment shows, except a  *)
(* pen move along that very segment.                                       *)
NoRetroactiveRestyle ==
  [][\A a, b \in Points :
       (/\ StyleOn(persist, a, b) # << >>
        /\ StyleOn(persist', a, b) # << >>
        /\ ~(/\ IsStep({"move"}) /\ isDrawing
             /\ {a, b} = {Last(gest.pts), Last(gest'.pts)}))
       => StyleOn(persist', a, b) = StyleOn(persist, a, b)]_vars

(* C8: right after a confirmed clear the persistent canvas is blank,       *)
(* whatever it held and also when it was blank already.                    *)
ClearBlanksPersistent == (ev.op \in ClearOps /\ ev.ok) => persist = Blank

\* a confirmed clear of a canvas that held something
ClearBlanksWitness ==
  ev.op \in ClearOps /\ ev.ok /\ ev.had >= 1 /\ persist = Blank

(* C9: a clear request the user does not confirm, from the toolbar button  *)
(* or from the keyboard, changes neither canvas nor the session.           *)
ClearNeedsConfirmation ==
  [][(IsStep(ClearOps) /\ ~ev'.ok)
     => UNCHANGED <<persist, preview, isDrawing, startPos>>]_vars

\* Delete pressed during a gesture over a non-blank canvas, and declined
ClearDeclinedWitness ==
  /\ ev.op = "keyClear" /\ ~ev.ok
  /\ ev.had >= 1 /\ Len(persist) = ev.had
  /\ isDrawing

(* C10: only a confirmed clear removes content from the persistent canvas: *)
(* every other step keeps what is on it and at most adds to it.            *)
PersistentAppendOnly ==
  [][~(IsStep(ClearOps) /\ ev'.ok) => IsPrefix(persist, persist')]_vars

(* C11: confirming an open text region, by Enter without Shift or by     *)
(* focus loss, closes it whatever its content: afterwards there is no     *)
(* region and no session.                                                  *)
TextConfirmCloses ==
  [][(IsStep(ConfirmOps) /\ textInputPosition # NoPos)
     => textInputPosition' = NoPos /\ ~isDrawing']_vars

(* C12: confirming a region whose content is empty or whitespace-only      *)
(* leaves the persistent canvas as it was; Enter on the content "Hi"       *)
(* paints "Hi" at the region's anchor and closes the region.               *)
TextCommitTrimRule ==
  [][(IsStep(ConfirmOps) /\ textInputPosition # NoPos)
     => /\ Trim(textInputValue) = << >> => persist' = persist
        /\ (ev'.op = "enter" /\ textInputValue = <<"H", "i">>)
             => /\ Len(persist') = Len(persist) + 1
                /\ IsPrefix(persist, persist')
                /\ Last(persist').kind = "text"
                /\ Last(persist').str = <<"H", "i">>
                /\ Last(persist').at = textInputPosition
                /\ textInputPosition' = NoPos]_vars

\* Enter has just painted "Hi" and closed the region
TextCommitWitness ==
  /\ ev.op = "enter" /\ Len(persist) = ev.had + 1
  /\ Last(persist).kind = "text" /\ Last(persist).str = <<"H", "i">>
  /\ textInputPosition = NoPos

(* C13: Escape in an open text region discards it: the persistent canvas   *)
(* is unchanged, the content is empty and there is no region afterwards.   *)
EscapeDiscards ==
  [][(IsStep({"escape"}) /\ textInputPosition # NoPos)
     => /\ persist' = persist
        /\ textInputValue' = << >>
        /\ textInputPosition' = NoPos]_vars

\* Escape was pressed on a region that held non-blank content
EscapeWitness ==
  /\ ev.op = "escape" /\ ev.txt >= 2
  /\ textInputValue = << >> /\ textInputPosition = NoPos

(* C14: a Text-tool pointer-down while a region with non-blank content is  *)
(* open paints that content at the old region's anchor, and the region     *)
(* open afterwards is the new one.                                         *)
TextDownCommitsAtOldAnchor ==
  [][(/\ IsStep({"down"}) /\ ctx /\ drawMode = "text"
      /\ textInputPosition # NoPos /\ Trim(textInputValue) # << >>)
     => /\ Len(persist') = Len(persist) + 1
        /\ IsPrefix(persist, persist')
        /\ Last(persist').kind = "text"
        /\ Last(persist').str = textInputValue
        /\ Last(persist').at = textInputPosition
        /\ textInputPosition' \in Points]_vars

\* the pointer-down painted the pending text away from the new region
TextDownWitness ==
  /\ ev.op = "down" /\ drawMode = "text"
  /\ Len(persist) = ev.had + 1 /\ Last(persist).kind = "text"
  /\ textInputPosition # NoPos /\ Last(persist).at # textInputPosition

(* C15: after a Text-tool pointer-down while a region is open, the content *)
(* of the new region is empty whatever the old region held.                *)
NewRegionStartsEmpty ==
  [][(/\ IsStep({"down"}) /\ ctx /\ drawMode = "text"
      /\ textInputPosition # NoPos)
     => textInputValue' = << >>]_vars

(* C16: every arrow a render pass has drawn, on the preview canvas or      *)
(* committed to the persistent canvas, sketchy or precise, consists of     *)
(* the shaft from the anchor to the current point and the arrowhead.       *)
ArrowHasShaftAndHead ==
  \A layer \in {persist, preview} :
    \A i \in DOMAIN layer :
      (layer[i].kind = "shape" /\ layer[i].tool = "arrow")
        => {"shaft", "head"} \subseteq layer[i].parts

(* C17: once a paste event carrying an image has been handled on the      *)
(* mounted page, the image is on its way to the persistent canvas: it is   *)
(* being decoded or it has been blitted.                                   *)
PastedImageReachesCanvas ==
  (ev.op = "paste" /\ ev.ok /\ ctx) => (decoding # << >> \/ HasImage(persist))

(* C18: a paste event without an image item, handled on the mounted page,  *)
(* shows the "no image" toast and leaves the persistent canvas unchanged.  *)
NoImagePasteReported ==
  [][(IsStep({"paste"}) /\ ~ev'.ok /\ ctx)
     => toast' = "error" /\ persist' = persist]_vars

SecondPasteJoinsFirst ==
  [][(/\ IsStep({"paste"}) /\ ev'.ok /\ ctx
      /\ ev.op = "paste" /\ ev.ok)
     => /\ IsPrefix(decoding, decoding')
        /\ Len(decoding') = Len(decoding) + 1
        /\ Len(decoding') >= 2]_vars

(* C21: while the drawing contexts are not available yet, a pointer-down,  *)
(* pointer-move, pointer-up or -leave, text confirm, paste or clear        *)
(* changes neither canvas, starts no session and opens no text region.     *)
UnavailableSurfaceNoOp ==
  [][(/\ ~ctx
      /\ IsStep({"down", "move", "paste"} \cup StopEvents \cup ConfirmOps
                 \cup ClearOps))
     => UNCHANGED <<persist, preview, isDrawing, startPos, textInputValue,
                    textInputPosition>>]_vars

\* a pointer-down was handled before the contexts were there
UnavailableSurfaceWitness ==
  /\ ~ctx /\ ev.op = "down" /\ drawMode \in {"pen", "text"}
  /\ ~isDrawing /\ textInputPosition = NoPos

(* C22: when a shape gesture that has previewed a shape ends by pointer-up *)
(* or pointer-leave, the session is over and the shape previewed last is   *)
(* on the persistent canvas, whatever tool is active by then.              *)
EndedGestureIsCommitted ==
  [][(/\ IsStep(StopEvents) /\ isDrawing
      /\ gest.tool \in ShapeTools /\ Len(gest.pts) >= 2
      /\ preview # Blank)
     => /\ ~isDrawing'
        /\ \E i \in DOMAIN persist' : persist'[i] = Last(preview)]_vars

(* C23: selecting a tool, by toolbar button or shortcut key, makes it the  *)
(* one active tool and leaves the persistent canvas as it was.             *)
ToolSelectKeepsPersistent ==
  [][(IsStep({"config"}) /\ drawMode' # drawMode)
     => drawMode' \in Tools /\ persist' = persist]_vars

(* C24: a pointer-move and a pointer-up or -leave with no session active   *)
(* are ignored: both canvases, the session and the text region stay as     *)
(* they were.                                                              *)
StrayPointerEventsIgnored ==
  [][(IsStep({"move"} \cup StopEvents) /\ ~isDrawing)
     => UNCHANGED <<persist, preview, path, isDrawing, startPos,
                    textInputValue, textInputPosition>>]_vars

\* a pointer-move arrived after the gesture had ended
StrayMoveWitness ==
  /\ ev.op = "move" /\ ~isDrawing /\ ctx
  /\ gest.tool = "pen" /\ persist # Blank

(* C25: a text painted on the persistent canvas is the trimmed content: it *)
(* has no leading and no trailing whitespace.                              *)
PaintedTextIsTrimmed ==
  \A i \in DOMAIN persist :
    persist[i].kind = "text" => persist[i].str = Trim(persist[i].str)

(* C29: a pointer-move handled during a session with a shape tool leaves   *)
(* the preview canvas with exactly one shape, the one from the anchor to   *)
(* the pointer; the preview canvas never holds more than one shape.        *)
PreviewHoldsOneShape ==
  /\ [](Len(preview) <= 1)
  /\ [][(IsStep({"move"}) /\ isDrawing /\ drawMode \in ShapeTools)
        => /\ Len(preview') = 1
           /\ IsShapeOf(preview'[1], drawMode, startPos, Last(gest'.pts))]_vars

\* the second move of a shape gesture has redrawn the preview
PreviewRedrawnWitness ==
  /\ ev.op = "move" /\ isDrawing /\ drawMode \in ShapeTools
  /\ Len(gest.pts) >= 3 /\ gest.pts[2] # gest.pts[3]
  /\ Len(preview) = 1 /\ preview[1].to = gest.pts[3]

(* C30: a pointer-leave during a session with a shape tool commits the     *)
(* preview as a pointer-up does - the preview is drawn onto the persistent *)
(* canvas, the preview canvas is blank, the session is over - and the      *)
(* pointer-up that follows is ignored.                                     *)
LeaveCommitsLikeUp ==
  [][/\ (IsStep({"mouseleave", "mouseup"}) /\ isDrawing
          /\ drawMode \in ShapeTools)
        => /\ persist' = persist \o preview
           /\ preview' = Blank
           /\ ~isDrawing' /\ startPos' = NoPos
     /\ (IsStep({"mouseup"}) /\ ev.op = "mouseleave" /\ ~isDrawing)
        => UNCHANGED <<persist, preview, isDrawing, startPos>>]_vars

\* the pointer left the canvas during a shape gesture and the shape is there
LeaveCommitsWitness ==
  /\ ev.op = "mouseleave" /\ ~isDrawing
  /\ gest.tool \in ShapeTools /\ gest.kept /\ Len(gest.pts) >= 2
  /\ Len(persist) = gest.base + 1 /\ Last(persist).kind = "shape"
  /\ preview = Blank

(* C27: the rectangle previewed for a drag from A to B has the geometry    *)
(* of the rectangle for the drag from B to A: the box with corners at A    *)
(* and B, whatever the direction of the drag.                              *)
RectDragDirectionIndependent ==
  \A i \in DOMAIN preview :
    preview[i].tool = "rectangle"
      => /\ preview[i].geom
              = ShapeGeom("rectangle", preview[i].to, preview[i].from)
         /\ {preview[i].from, preview[i].to} \subseteq preview[i].geom.corners

\* a rectangle dragged up and to the left
RectDragWitness ==
  /\ ev.op = "move" /\ Len(preview) = 1 /\ preview[1].tool = "rectangle"
  /\ preview[1].to.x < preview[1].from.x
  /\ preview[1].to.y < preview[1].from.y

MoveToolInert ==
  [][(IsStep({"down", "move"} \cup StopEvents) /\ drawMode = "move")
     => /\ UNCHANGED <<persist, preview, isDrawing, startPos>>
        /\ ~isDrawing' /\ startPos' = NoPos]_vars

\* the pending timers of an owner in a timer table
Pending(tab, owner) ==
  {i \in DOMAIN tab : tab[i].owner = owner /\ tab[i].state = "pending"}

(* C32: a timer of the tooltip or of the debounced resize handler fires at *)
(* most once and never after its component was torn down (teardown leaves  *)
(* none of them pending); the hook never has two timers pending, so the    *)
(* change events of a burst leave one timer, whose firing is the single    *)
(* state update and leaves none pending.                                   *)
TimersFireOnceAndAreCleared ==
  /\ [](\A o \in {"canvas", "hook"} :
         life[o] = "torn" => Pending(timeouts, o) = {})
  /\ [](Cardinality(Pending(timeouts, "hook")) <= 1)
  /\ [][IsStep({"timeout"})
        => /\ timeouts[ev'.had].state = "pending"
           /\ timeouts'[ev'.had].state = "fired"
           /\ life[timeouts[ev'.had].owner] = "mounted"
           /\ Pending(timeouts', timeouts[ev'.had].owner) = {}]_vars
  /\ [][\A i \in DOMAIN timeouts :
          timeouts[i].state # "pending" => timeouts'[i] = timeouts[i]]_vars
  /\ [][IsStep({"change"})
        => Cardinality(Pending(timeouts', "hook")) = 1]_vars

\* two change events in a row were answered by one update, made by the
\* second timer, and the Canvas was torn down with its tooltip timer pending
DebouncedUpdateWitness ==
  /\ ev.op = "timeout" /\ timeouts[ev.had].owner = "hook"
  /\ \E i \in DOMAIN timeouts :
       i < ev.had /\ timeouts[i].owner = "hook" /\ timeouts[i].state = "cleared"
  /\ isMobile = "true"
  /\ life.canvas = "torn" /\ timeouts[tooltipTimer].state = "cleared"

(* C33: a key press whose target is the open text region activates no      *)
(* shortcut: the active tool and the persistent canvas stay as they were,  *)
(* nothing is saved and no clear is asked for.                             *)
ShortcutsOffWhileTyping ==
  [][(IsStep({"keydown"}) /\ focused)
     => /\ UNCHANGED <<drawMode, persist>>
        /\ ev'.saves = 0 /\ ev'.asked = 0]_vars

\* Ctrl+Delete was pressed in the open text region over a painted canvas
TypingDeleteWitness ==
  /\ ev.op = "keydown" /\ ev.key = "delete" /\ ev.ctrlKey
  /\ focused /\ textInputPosition # NoPos /\ drawMode = "text"
  /\ persist # Blank

(* C39: one shortcut key press runs its operation at most once: Ctrl+S     *)
(* exports exactly once and Ctrl+Delete asks for the clear confirmation    *)
(* exactly once.                                                           *)
ShortcutRunsOnce ==
  [][(IsStep({"keydown"}) /\ ~focused)
     => /\ ev'.saves <= 1 /\ ev'.asked <= 1
        /\ (ev'.key = "s" /\ ev'.ctrlKey) => ev'.saves = 1
        /\ (ev'.key = "delete" /\ ev'.ctrlKey) => ev'.asked = 1]_vars

(* C34: what a confirmed Clear removed from the persistent canvas does not *)
(* come back: a pointer-move that follows the Clear, also one of a pen     *)
(* gesture that was in progress, paints at most the segment from the last  *)
(* pointer position to the new one.                                        *)
ClearedContentStaysGone ==
  [][(ev.op \in ClearOps /\ ev.ok /\ IsStep({"move"}))
     => \A i \in DOMAIN persist' :
          /\ persist'[i].kind = "stroke"
          /\ persist'[i].pts = <<Last(gest.pts), Last(gest'.pts)>>]_vars

(* C35: every pen stroke added to the persistent canvas runs along         *)
(* consecutive pointer positions of the gesture in progress, never along   *)
(* the path of an earlier gesture, whatever tool switches happen.          *)
PenStrokeOfOwnGesture ==
  [][(IsStep({"move"}) /\ drawMode = "pen" /\ persist' # persist)
     => /\ Len(persist') = Len(persist) + 1
        /\ \A k \in 1..(Len(Last(persist').pts) - 1) :
             HasSegment(gest'.pts, Last(persist').pts[k],
                        Last(persist').pts[k + 1])]_vars

\* the event handled last was a commit event that painted a text
JustPainted ==
  /\ ev.op \in ConfirmOps \cup {"down"}
  /\ Len(persist) = ev.had + 1
  /\ Last(persist).kind = "text"

(* C36: a typed text is painted at most once.  An event that can commit    *)
(* (Enter, focus loss, pointer-down) paints at most the current content,   *)
(* once, and empties the text input; a commit event that directly follows  *)
(* one that painted paints nothing.                                        *)
TextPaintedAtMostOnce ==
  [][IsStep(ConfirmOps \cup {"down"})
     => /\ persist' # persist
             => /\ persist' = Append(persist, Last(persist'))
                /\ Last(persist').kind = "text"
                /\ Last(persist').str = textInputValue
                /\ textInputValue' = << >>
        /\ JustPainted => persist' = persist]_vars

\* a pointer-down with the Text tool painted the pending text at its anchor
\* and opened a new region, which then lost the focus
DownThenBlurWitness ==
  /\ ev.op = "blur" /\ ev.had = 1 /\ Len(persist) = 1
  /\ persist[1].kind = "text" /\ persist[1].str = <<"H", "i">>
  /\ textInputPosition # NoPos /\ textInputPosition # persist[1].at
  /\ textInputValue = << >>

(* C37: the session flag and the anchor agree in every state: a session is *)
(* active exactly when an anchor is recorded; a pointer-down with the Text *)
(* tool neither activates a session nor records an anchor.                 *)
SessionFlagMatchesAnchor ==
  /\ [](isDrawing <=> startPos # NoPos)
  /\ [][(IsStep({"down"}) /\ drawMode = "text")
        => UNCHANGED <<isDrawing, startPos>>]_vars

\* a pointer-down with the Text tool opened a region at the pointer and
\* left the session idle
TextDownIdleWitness ==
  /\ ev.op = "down" /\ drawMode = "text" /\ ctx
  /\ textInputPosition # NoPos /\ focused
  /\ ~isDrawing /\ startPos = NoPos

(* C38: a pointer-down with a drawing tool while a session is active       *)
(* restarts the session: the anchor becomes the new point, nothing is      *)
(* committed to the persistent canvas; with a shape tool the preview       *)
(* canvas is cleared, with Pen the path starts again at the new point.     *)
SecondDownRestartsSession ==
  [][(IsStep({"down"}) /\ isDrawing /\ ctx /\ drawMode # "text")
     => /\ isDrawing' /\ startPos' # NoPos
        /\ gest'.pts = <<startPos'>>
        /\ persist' = persist
        /\ IF drawMode = "pen" THEN path' = <<startPos'>>
           ELSE preview' = Blank]_vars

\* the third event was a pointer-down of a pen gesture that had already
\* painted: the session goes on from the new point
SecondDownWitness ==
  /\ ev.op = "down" /\ steps = 3 /\ drawMode = "pen"
  /\ persist # Blank /\ isDrawing
  /\ path = <<startPos>> /\ gest.pts = <<startPos>>

====
